---- MODULE Spec2Model ----
(***************************************************************************)
(* htpasswd (Deno port): the password file operations upsert, remove and   *)
(* validate of src/main.ts, and the hash provider digest / compare.        *)
(*                                                                         *)
(* A string is a sequence of one-character strings.  The password file is  *)
(* its text, not a list of records: readLines, String.split and            *)
(* Array.join are modelled by what they do to that text.                   *)
(*                                                                         *)
(* The digest functions are idealised: MD5 and SHA-1 are injective on the  *)
(* texts of the model, their outputs are base64 text (no ':' or line       *)
(* break), and an MD5 output never equals a SHA-1 or a bcrypt output (the  *)
(* real outputs have 24, 28 and 60 characters).                            *)
(***************************************************************************)
EXTENDS Naturals, Sequences, FiniteSets, TLC

VARIABLES
  fs,    \* the password file: [exists, content]
  last   \* the last API call: its arguments, the file before it, its outcome

vars == <<fs, last>>

(***************************************************************************)
(* Bounds of the model.                                                    *)
(***************************************************************************)
\* the number of lines of a file that exists before the first call
MaxInitLines == 3
\* the length of the longest text given to digest and compare
MaxTextLen == 2

(***************************************************************************)
(* Characters and JavaScript's undefined.                                  *)
(***************************************************************************)
LF == "\n"
CR == "\r"
COLON == ":"

\* an absent string value (a destructured array element that is missing)
Undefined == <<"undefined">>
\* an absent option of the options object
Undef == "undefined"

None == "none"

(***************************************************************************)
(* String.split, Array.join, readLines.                                    *)
(***************************************************************************)
\* s.split(sep) for a one-character separator: at least one piece
split(s, sep) ==
  LET RECURSIVE go(_, _, _)
      go(i, cur, acc) ==
        IF i > Len(s) THEN Append(acc, cur)
        ELSE IF s[i] = sep THEN go(i + 1, <<>>, Append(acc, cur))
        ELSE go(i + 1, Append(cur, s[i]), acc)
  IN go(1, <<>>, <<>>)

\* lines.join("\n")
join(lines) ==
  LET RECURSIVE go(_, _)
      go(i, acc) ==
        IF i > Len(lines) THEN acc
        ELSE go(i + 1, IF i = 1 THEN lines[i] ELSE acc \o <<LF>> \o lines[i])
  IN go(1, <<>>)

\* BufReader.readLine drops the "\n" that ends a line and one "\r" before it
dropCR(line) ==
  IF Len(line) > 0 /\ line[Len(line)] = CR THEN SubSeq(line, 1, Len(line) - 1)
  ELSE line

\* the lines readLines yields for a file of this content: every piece that a
\* "\n" ends, and the rest of the file when it is not empty
readLines(content) ==
  LET pieces == split(content, LF)
      n == Len(pieces)
      ended == [i \in 1..(n - 1) |-> dropCR(pieces[i])]
  IN IF pieces[n] = <<>> THEN ended ELSE Append(ended, pieces[n])

\* const [user] = line.split(":")
userOf(line) == split(line, COLON)[1]

\* const [user, hash] = line.split(":")
hashOf(line) ==
  LET parts == split(line, COLON)
  IN IF Len(parts) >= 2 THEN parts[2] ELSE Undefined

\* encoder.encode(s): an undefined argument encodes as the empty string
encode(s) == IF s = Undefined THEN <<>> ELSE s

(***************************************************************************)
(* Hash provider.                                                          *)
(***************************************************************************)
DefaultCost == 5
BcryptMinCost == 4
BcryptMaxCost == 31
BcryptMaxPassword == 72
\* the two values the random source may return for a 16-byte salt
Salts == {"s1", "s2"}

\* the algorithms crypto.subtle.digest knows, of those the model uses
FastDigests == {"MD5", "SHA-1"}

Ok(v) == [threw |-> None, value |-> v]
Threw(e) == [threw |-> e, value |-> <<>>]

\* one character of base64 text for one character of the digested text
b64Char(c) ==
  CASE c = COLON -> "C"
    [] c = LF -> "N"
    [] c = CR -> "R"
    [] c = "$" -> "D"
    [] OTHER -> c

b64(text) == [i \in 1..Len(text) |-> b64Char(text[i])]

\* toHashString(await crypto.subtle.digest(algorithm, bytes), "base64")
toHashString(algorithm, text) ==
  IF algorithm \notin FastDigests THEN Threw("NotSupportedError")
  ELSE Ok(<<IF algorithm = "MD5" THEN "M" ELSE "S">> \o b64(text))

\* hash-wasm's bcrypt: cost 4..31, password of 1..72 bytes, a 16-byte salt;
\* the output names the cost and the salt
bcrypt(password, salt, costFactor) ==
  IF costFactor < BcryptMinCost \/ costFactor > BcryptMaxCost THEN Threw("Error")
  ELSE IF Len(password) < 1 \/ Len(password) > BcryptMaxPassword THEN Threw("Error")
  ELSE Ok(<<"$", ToString(costFactor), salt>> \o b64(password))

bcryptWellFormed(hash) ==
  /\ hash # Undefined
  /\ Len(hash) >= 4
  /\ hash[1] = "$"
  /\ \E c \in BcryptMinCost..BcryptMaxCost : hash[2] = ToString(c)
  /\ hash[3] \in Salts

\* hash-wasm's bcryptVerify: rejects a malformed hash or password, else
\* recomputes the hash with the embedded cost and salt
bcryptVerify(password, hash) ==
  IF ~bcryptWellFormed(hash) THEN Threw("Error")
  ELSE IF Len(password) < 1 \/ Len(password) > BcryptMaxPassword THEN Threw("Error")
  ELSE LET c == CHOOSE c \in BcryptMinCost..BcryptMaxCost : hash[2] = ToString(c)
       IN Ok(bcrypt(password, hash[3], c).value = hash)

\* crypto.subtle.timingSafeEqual
timingSafeEqual(a, b) ==
  IF Len(a) # Len(b) THEN FALSE
  ELSE \A i \in 1..Len(a) : a[i] = b[i]

\* digest(text, options); random is what genSalt(16) returns
digest(text, options, random) ==
  LET algorithm == IF options.algorithm = Undef THEN "MD5" ELSE options.algorithm
      costFactor == IF options.costFactor = <<>> THEN DefaultCost ELSE options.costFactor[1]
      salt == IF options.salt = Undef THEN random ELSE options.salt
  IN IF algorithm = "PLAIN" THEN Ok(text)
     ELSE IF algorithm = "BCRYPT" THEN bcrypt(text, salt, costFactor)
     ELSE toHashString(algorithm, text)

\* compare, were digest called without the algorithm (so with its default)
compareDefaultDigest(text, hash, algorithm) ==
  IF algorithm = "PLAIN" THEN Ok(<<text = hash>>)
  ELSE IF algorithm = "BCRYPT" THEN
    LET v == bcryptVerify(text, hash)
    IN IF v.threw # None THEN Ok(<<FALSE>>) ELSE Ok(<<v.value>>)
  ELSE
    LET d == digest(text, [create |-> FALSE, algorithm |-> Undef,
                           salt |-> Undef, costFactor |-> <<>>], "s1")
    IN IF d.threw # None THEN Threw(d.threw)
       ELSE Ok(<<timingSafeEqual(encode(d.value), encode(hash))>>)

\* compare, were the error of bcryptVerify not caught
compareNoCatch(text, hash, algorithm) ==
  IF algorithm = "PLAIN" THEN Ok(<<text = hash>>)
  ELSE IF algorithm = "BCRYPT" THEN
    LET v == bcryptVerify(text, hash)
    IN IF v.threw # None THEN Threw(v.threw) ELSE Ok(<<v.value>>)
  ELSE
    LET d == digest(text, [create |-> FALSE, algorithm |-> algorithm,
                           salt |-> Undef, costFactor |-> <<>>], "s1")
    IN IF d.threw # None THEN Threw(d.threw)
       ELSE Ok(<<timingSafeEqual(encode(d.value), encode(hash))>>)

\* the options compare passes to digest
onlyAlgorithm(algorithm) ==
  [create |-> FALSE, algorithm |-> algorithm, salt |-> Undef, costFactor |-> <<>>]

\* compare(text, hash, algorithm): value is a one-element sequence holding
\* the boolean returned
compare(text, hash, algorithm) ==
  IF algorithm = "PLAIN" THEN Ok(<<text = hash>>)
  ELSE IF algorithm = "BCRYPT" THEN
    LET v == bcryptVerify(text, hash)
    IN IF v.threw # None THEN Ok(<<FALSE>>) ELSE Ok(<<v.value>>)
  ELSE
    LET d == digest(text, onlyAlgorithm(algorithm), "s1")
    IN IF d.threw # None THEN Threw(d.threw)
       ELSE Ok(<<timingSafeEqual(encode(d.value), encode(hash))>>)

(***************************************************************************)
(* Record store: the loops of upsert, remove and validate over the lines.  *)
(***************************************************************************)
\* upsert's loop, were it to append the new record whether or not it found one
upsertLinesAlwaysAppend(lines, username, newline) ==
  LET RECURSIVE go(_, _)
      go(i, acc) ==
        IF i > Len(lines) THEN Append(acc, newline)
        ELSE IF userOf(lines[i]) # username THEN go(i + 1, Append(acc, lines[i]))
        ELSE go(i + 1, Append(acc, newline))
  IN go(1, <<>>)

\* upsert's loop, were it to keep the line it finds instead of replacing it
upsertLinesKeepOld(lines, username, newline) ==
  LET RECURSIVE go(_, _, _)
      go(i, acc, found) ==
        IF i > Len(lines) THEN (IF ~found THEN Append(acc, newline) ELSE acc)
        ELSE IF userOf(lines[i]) # username THEN go(i + 1, Append(acc, lines[i]), found)
        ELSE go(i + 1, Append(acc, lines[i]), TRUE)
  IN go(1, <<>>, FALSE)

\* upsert's loop, were it to replace the first matching line only
upsertLinesFirstOnly(lines, username, newline) ==
  LET RECURSIVE go(_, _, _)
      go(i, acc, found) ==
        IF i > Len(lines) THEN (IF ~found THEN Append(acc, newline) ELSE acc)
        ELSE IF userOf(lines[i]) # username \/ found THEN go(i + 1, Append(acc, lines[i]), found)
        ELSE go(i + 1, Append(acc, newline), TRUE)
  IN go(1, <<>>, FALSE)

\* upsert's loop, were a record that is not found put first (unshift for push)
upsertLinesPrepend(lines, username, newline) ==
  LET RECURSIVE go(_, _, _)
      go(i, acc, found) ==
        IF i > Len(lines) THEN (IF ~found THEN <<newline>> \o acc ELSE acc)
        ELSE IF userOf(lines[i]) # username THEN go(i + 1, Append(acc, lines[i]), found)
        ELSE go(i + 1, Append(acc, newline), TRUE)
  IN go(1, <<>>, FALSE)

\* upsert's loop and the append that follows it (main.ts 73-88)
upsertLines(lines, username, newline) ==
  LET RECURSIVE go(_, _, _)
      go(i, acc, found) ==
        IF i > Len(lines) THEN (IF ~found THEN Append(acc, newline) ELSE acc)
        ELSE IF userOf(lines[i]) # username THEN go(i + 1, Append(acc, lines[i]), found)
        ELSE go(i + 1, Append(acc, newline), TRUE)
  IN go(1, <<>>, FALSE)

\* remove's loop, were it to delete the first matching line only
removeLinesFirstOnly(lines, username) ==
  LET RECURSIVE go(_, _, _)
      go(i, acc, found) ==
        IF i > Len(lines) THEN [lines |-> acc, found |-> found]
        ELSE IF userOf(lines[i]) # username \/ found THEN go(i + 1, Append(acc, lines[i]), found)
        ELSE go(i + 1, acc, TRUE)
  IN go(1, <<>>, FALSE)

\* remove's loop, were a matching line kept as well as counted
removeLinesKeepAll(lines, username) ==
  LET RECURSIVE go(_, _, _)
      go(i, acc, found) ==
        IF i > Len(lines) THEN [lines |-> acc, found |-> found]
        ELSE IF userOf(lines[i]) # username THEN go(i + 1, Append(acc, lines[i]), found)
        ELSE go(i + 1, Append(acc, lines[i]), TRUE)
  IN go(1, <<>>, FALSE)

\* remove's loop, were found set for every line read
removeLinesFoundAny(lines, username) ==
  LET RECURSIVE go(_, _, _)
      go(i, acc, found) ==
        IF i > Len(lines) THEN [lines |-> acc, found |-> found]
        ELSE IF userOf(lines[i]) # username THEN go(i + 1, Append(acc, lines[i]), TRUE)
        ELSE go(i + 1, acc, TRUE)
  IN go(1, <<>>, FALSE)

\* remove's loop (main.ts 104-114): the lines kept, and found
removeLines(lines, username) ==
  LET RECURSIVE go(_, _, _)
      go(i, acc, found) ==
        IF i > Len(lines) THEN [lines |-> acc, found |-> found]
        ELSE IF userOf(lines[i]) # username THEN go(i + 1, Append(acc, lines[i]), found)
        ELSE go(i + 1, acc, TRUE)
  IN go(1, <<>>, FALSE)

\* the candidate algorithms, were the explicit algorithm ignored
candidatesDefaultOnly(algorithm) == <<"MD5", "SHA-1", "BCRYPT">>

\* const algorithms = algorithm ? [algorithm] : ["MD5", "SHA-1", "BCRYPT"]
candidates(algorithm) ==
  IF algorithm # Undef THEN <<algorithm>> ELSE <<"MD5", "SHA-1", "BCRYPT">>

\* the inner loop of validate, were it to try the first candidate only
probeFirstOnly(password, hash, algorithms) ==
  LET c == compare(password, hash, algorithms[1])
  IN IF c.threw # None THEN c ELSE Ok(<<c.value[1]>>)

\* the inner loop of validate over the candidate algorithms, for one line:
\* whether one of them matches, or the error compare threw
probe(password, hash, algorithms) ==
  LET RECURSIVE go(_)
      go(k) ==
        IF k > Len(algorithms) THEN Ok(<<FALSE>>)
        ELSE LET c == compare(password, hash, algorithms[k])
             IN IF c.threw # None THEN c
                ELSE IF c.value[1] THEN Ok(<<TRUE>>)
                ELSE go(k + 1)
  IN go(1)

\* validate's loop over the lines, were it to stop at the first line of the
\* username
validateLinesFirstMatch(lines, username, password, algorithms) ==
  LET RECURSIVE go(_)
      go(i) ==
        IF i > Len(lines) THEN Ok(<<FALSE>>)
        ELSE IF userOf(lines[i]) # username THEN go(i + 1)
        ELSE probe(password, hashOf(lines[i]), algorithms)
  IN go(1)

\* validate's loop over the lines (main.ts 142-153)
validateLines(lines, username, password, algorithms) ==
  LET RECURSIVE go(_, _)
      go(i, found) ==
        IF i > Len(lines) THEN Ok(<<found>>)
        ELSE IF userOf(lines[i]) # username THEN go(i + 1, found)
        ELSE LET r == probe(password, hashOf(lines[i]), algorithms)
             IN IF r.threw # None THEN r
                ELSE go(i + 1, found \/ r.value[1])
  IN go(1, FALSE)

(***************************************************************************)
(* The file system: one password file, present or not.                     *)
(***************************************************************************)
Absent == [exists |-> FALSE, content |-> <<>>]
File(content) == [exists |-> TRUE, content |-> content]

\* Exists, were every path but the empty one taken for an existing file
ExistsAnyPath(passwordfile) == passwordfile # ""

\* whether a file of this path exists; no file has the empty path
Exists(passwordfile) == passwordfile # "" /\ fs.exists

NoOptions == [create |-> FALSE, algorithm |-> Undef, salt |-> Undef, costFactor |-> <<>>]

NoCall ==
  [op |-> None, passwordfile |-> "", username |-> <<>>, password |-> <<>>,
   options |-> NoOptions, hash |-> <<>>, before |-> Absent,
   threw |-> None, ret |-> <<>>, found |-> FALSE]

\* the record of a call that threw
Failed(call, error) == [call EXCEPT !.threw = error]

(***************************************************************************)
(* The API calls.                                                          *)
(***************************************************************************)
\* what genSalt(16) may return in a call with these options: any salt; the
\* draw is used by BCRYPT alone, and only when the options give no salt
saltDraws(options) ==
  IF options.algorithm = "BCRYPT" /\ options.salt = Undef THEN Salts
  ELSE {CHOOSE s \in Salts : TRUE}

\* upsert, were it to open and write the file whatever the path, the empty
\* one included
upsertNoDryRun(passwordfile, username, password, options) ==
  \E random \in saltDraws(options) :
    LET call == [NoCall EXCEPT !.op = "upsert", !.passwordfile = passwordfile,
                   !.username = username, !.password = password,
                   !.options = options, !.before = fs]
        hash == digest(password, options, random)
        newline == username \o <<COLON>> \o hash.value
    IN IF hash.threw # None THEN
         /\ last' = Failed(call, hash.threw)
         /\ UNCHANGED fs
       ELSE IF ~fs.exists /\ ~options.create THEN
         /\ last' = Failed(call, "NotFound")
         /\ UNCHANGED fs
       ELSE
         /\ fs' = File(join(upsertLines(readLines(fs.content), username, newline)))
         /\ last' = [call EXCEPT !.ret = newline]

\* upsert(passwordfile, username, password, options), main.ts 52-95
upsert(passwordfile, username, password, options) ==
  \E random \in saltDraws(options) :
    LET call == [NoCall EXCEPT !.op = "upsert", !.passwordfile = passwordfile,
                   !.username = username, !.password = password,
                   !.options = options, !.before = fs]
        hash == digest(password, options, random)
        newline == username \o <<COLON>> \o hash.value
    IN IF hash.threw # None THEN
         /\ last' = Failed(call, hash.threw)
         /\ UNCHANGED fs
       ELSE IF passwordfile = "" THEN
         /\ last' = [call EXCEPT !.ret = newline]
         /\ UNCHANGED fs
       ELSE IF ~Exists(passwordfile) /\ ~options.create THEN
         /\ last' = Failed(call, "NotFound")
         /\ UNCHANGED fs
       ELSE
         /\ fs' = File(join(upsertLines(readLines(fs.content), username, newline)))
         /\ last' = [call EXCEPT !.ret = newline]

\* remove(passwordfile, username), main.ts 101-120
remove(passwordfile, username) ==
  LET call == [NoCall EXCEPT !.op = "remove", !.passwordfile = passwordfile,
                 !.username = username, !.before = fs]
      r == removeLines(readLines(fs.content), username)
  IN IF ~Exists(passwordfile) THEN
       /\ last' = Failed(call, "NotFound")
       /\ UNCHANGED fs
     ELSE
       /\ fs' = File(join(r.lines))
       /\ last' = [call EXCEPT !.found = r.found]

\* what validate(passwordfile, username, password, options) does on the file
\* system as it is, main.ts 126-158: the error thrown or the boolean returned.
\* Deno.open refuses create without write or append before it looks for the file.
validateOutcome(passwordfile, username, password, options) ==
  IF options.create THEN Threw("Error")
  ELSE IF ~Exists(passwordfile) THEN Threw("NotFound")
  ELSE validateLines(readLines(fs.content), username, password,
                     candidates(options.algorithm))

validate(passwordfile, username, password, options) ==
  LET call == [NoCall EXCEPT !.op = "validate", !.passwordfile = passwordfile,
                 !.username = username, !.password = password,
                 !.options = options, !.before = fs]
      r == validateOutcome(passwordfile, username, password, options)
  IN /\ UNCHANGED fs
     /\ IF r.threw # None THEN last' = Failed(call, r.threw)
        ELSE last' = [call EXCEPT !.found = r.value[1]]

\* a call of digest(text, options) from outside the module
digestCall(text, options) ==
  \E random \in saltDraws(options) :
    LET call == [NoCall EXCEPT !.op = "digest", !.password = text,
                   !.options = options, !.before = fs]
        d == digest(text, options, random)
    IN /\ UNCHANGED fs
       /\ IF d.threw # None THEN last' = Failed(call, d.threw)
          ELSE last' = [call EXCEPT !.ret = d.value]

\* a call of compare(text, hash, algorithm) from outside the module
compareCall(text, hash, algorithm) ==
  LET call == [NoCall EXCEPT !.op = "compare", !.password = text, !.hash = hash,
                 !.options = onlyAlgorithm(algorithm), !.before = fs]
      c == compare(text, hash, algorithm)
  IN /\ UNCHANGED fs
     /\ IF c.threw # None THEN last' = Failed(call, c.threw)
        ELSE last' = [call EXCEPT !.found = c.value[1]]

(***************************************************************************)
(* Inputs.                                                                 *)
(***************************************************************************)
PasswordFile == ".htpasswd"
Paths == {"", PasswordFile}
Algorithms == {"PLAIN", "MD5", "SHA-1", "BCRYPT"}
\* an algorithm option: absent, one of the four, or one that is not supported
AlgorithmOptions == Algorithms \cup {Undef, "CRYPT"}

OptionsOver(algorithms) ==
  [create : BOOLEAN, algorithm : algorithms, salt : {Undef}, costFactor : {<<>>}]

(***************************************************************************)
(* Spec: any sequence of upsert and remove calls with well-formed          *)
(* usernames and passwords, on a file that is absent or empty at first.    *)
(***************************************************************************)
Usernames == {<<"a">>, <<"b">>}
Passwords == {<<>>, <<"x">>}

Upsert ==
  \E f \in Paths, u \in Usernames, p \in Passwords, o \in OptionsOver(Algorithms) :
    upsert(f, u, p, o)

Remove ==
  \E f \in Paths, u \in Usernames : remove(f, u)

Init ==
  /\ fs \in {Absent, File(<<>>)}
  /\ last = NoCall

Next == Upsert \/ Remove

Spec == Init /\ [][Next]_vars

(***************************************************************************)
(* SpecFiles: one call of upsert, remove or validate, with any username    *)
(* and password, on a password file written by hand or by another tool.    *)
(***************************************************************************)
\* lines of such a file: a plain and an MD5 record of a, a record of b, a
\* blank line, and a line with no colon that ends with a carriage return
FileLines ==
  { <<"a", COLON, "x">>, <<"a", COLON, "M", "x">>, <<"b", COLON, "y">>,
    <<>>, <<"b", CR>> }

\* line endings of such a file
LineEnds == {<<LF>>, <<CR, LF>>}

RECURSIVE SeqsUpTo(_, _)
\* the sequences of at most n elements of S
SeqsUpTo(S, n) ==
  IF n = 0 THEN {<<>>}
  ELSE LET shorter == SeqsUpTo(S, n - 1)
       IN shorter \cup {Append(q, e) : q \in shorter, e \in S}

RECURSIVE Flatten(_)
\* the concatenation of a sequence of strings
Flatten(ss) == IF ss = <<>> THEN <<>> ELSE Head(ss) \o Flatten(Tail(ss))

\* the text of a file of these lines, each but the last ended by eol, and the
\* last one too when the file ends with a line end
TextOf(lines, eol, ended) ==
  Flatten([i \in 1..Len(lines) |->
             IF i < Len(lines) \/ ended THEN lines[i] \o eol ELSE lines[i]])

InitFiles ==
  { File(TextOf(lines, eol, ended)) :
      lines \in SeqsUpTo(FileLines, MaxInitLines), eol \in LineEnds, ended \in BOOLEAN }

AnyUsernames == {<<"a">>, <<>>, <<"a", COLON>>}
AnyPasswords == {<<>>, <<"x">>, <<"x", COLON>>, <<LF, "a", COLON, "x">>}

UpsertFile ==
  /\ last.op = None
  /\ \E f \in Paths, u \in AnyUsernames, p \in AnyPasswords, o \in OptionsOver(AlgorithmOptions) :
       upsert(f, u, p, o)

RemoveFile ==
  /\ last.op = None
  /\ \E u \in AnyUsernames : remove(PasswordFile, u)

ValidateFile ==
  /\ last.op = None
  /\ \E u \in AnyUsernames, p \in AnyPasswords, o \in OptionsOver(AlgorithmOptions) :
       validate(PasswordFile, u, p, o)

InitAnyFile ==
  /\ fs \in InitFiles \cup {Absent}
  /\ last = NoCall

NextFiles == UpsertFile \/ RemoveFile \/ ValidateFile

SpecFiles == InitAnyFile /\ [][NextFiles]_vars

(***************************************************************************)
(* SpecHash: one call of digest or compare.                                *)
(***************************************************************************)
TextChars == {"x", COLON, LF}
Texts == SeqsUpTo(TextChars, MaxTextLen)

DigestOptions ==
  [create : {FALSE}, algorithm : AlgorithmOptions, salt : {Undef, "s2"},
   costFactor : {<<>>, <<3>>, <<10>>}]

\* every hash digest returns for a text of the model
Digests ==
  { digest(t, o, r).value : t \in Texts,
      o \in {d \in DigestOptions : d.algorithm \in Algorithms}, r \in Salts }

\* strings that are no bcrypt hash, and the missing hash of a line with no colon
Malformed ==
  { Undefined, <<"$">>, <<"$", "5", "s1">>, <<"$", "3", "s1", "x">>,
    <<"$", "5", "s3", "x">> }

HashInputs == Digests \cup Malformed

Digest ==
  /\ last.op = None
  /\ \E t \in Texts, o \in DigestOptions : digestCall(t, o)

Compare ==
  /\ last.op = None
  /\ \E t \in Texts, h \in HashInputs, a \in AlgorithmOptions : compareCall(t, h, a)

InitHash ==
  /\ fs = Absent
  /\ last = NoCall

NextHash == Digest \/ Compare

SpecHash == InitHash /\ [][NextHash]_vars

(***************************************************************************)
(* What the claims speak of.                                               *)
(***************************************************************************)
\* the last call was an upsert that wrote the password file
UpsertWrote == last.op = "upsert" /\ last.threw = None /\ last.passwordfile # ""

\* the lines of the file before the last call, as readLines yields them
OldLines == readLines(last.before.content)

\* the positions of the lines whose username field is u
Matching(lines, u) == {i \in 1..Len(lines) : userOf(lines[i]) = u}

\* every line is a record username:hash
AllRecords(lines) ==
  \A i \in 1..Len(lines) : \E k \in 1..Len(lines[i]) : lines[i][k] = COLON

\* no two lines have the same username field
NoDuplicates(lines) ==
  \A i, j \in 1..Len(lines) : i # j => userOf(lines[i]) # userOf(lines[j])

\* the lines of the file as it is now
NewLines == readLines(fs.content)

\* a string with no colon and no line feed
Plain(s) == \A k \in 1..Len(s) : s[k] # COLON /\ s[k] # LF

\* the passwords tried against the file
Guesses == AnyPasswords \cup {<<"y">>}

\* username:digest(password, options), for every salt digest may draw
Records(username, password, options) ==
  { username \o <<COLON>> \o digest(password, options, r).value : r \in Salts }

(***************************************************************************)
(* C1 as stated: with several lines for the username in the file, upsert   *)
(* replaces the first of them by the new record and leaves the later ones  *)
(* and the lines of other users as they were (stated for files whose       *)
(* lines are all username:hash records).                                   *)
(***************************************************************************)
C1_ReplacesOnlyFirst ==
  (UpsertWrote /\ AllRecords(OldLines)
     /\ Cardinality(Matching(OldLines, last.username)) >= 2) =>
    LET first == CHOOSE i \in Matching(OldLines, last.username) :
                   \A j \in Matching(OldLines, last.username) : i <= j
    IN fs.content =
         join([i \in 1..Len(OldLines) |-> IF i = first THEN last.ret ELSE OldLines[i]])

(***************************************************************************)
(* C1 amended: with several lines for the username in the file, upsert     *)
(* replaces every one of them by the new record username:digest(password)  *)
(* and leaves the lines of other users as read, each in its place.         *)
(***************************************************************************)
C1_ReplacesEveryMatch ==
  (UpsertWrote /\ Cardinality(Matching(OldLines, last.username)) >= 2) =>
    /\ last.ret \in Records(last.username, last.password, last.options)
    /\ fs.content =
         join([i \in 1..Len(OldLines) |->
                 IF userOf(OldLines[i]) = last.username THEN last.ret ELSE OldLines[i]])

\* an upsert on a file with two different lines of the username, neither of
\* them the new record, and a line of another user
C1_Witness ==
  /\ UpsertWrote
  /\ \E i, j, k \in 1..Len(OldLines) :
       /\ i < j
       /\ userOf(OldLines[i]) = last.username /\ userOf(OldLines[j]) = last.username
       /\ OldLines[i] # OldLines[j]
       /\ OldLines[i] # last.ret /\ OldLines[j] # last.ret
       /\ userOf(OldLines[k]) # last.username /\ OldLines[k] # <<>>

(***************************************************************************)
(* C2 as stated: after upsert(file, u, p, {algorithm: PLAIN, create:       *)
(* true}) on an empty or absent file, with no ':' or line feed in u and p  *)
(* (and neither of them empty), validate(file, u, q) with no explicit      *)
(* algorithm returns q = p.                                                *)
(***************************************************************************)
C2_PlainUpsert ==
  /\ UpsertWrote
  /\ last.options.algorithm = "PLAIN" /\ last.options.create
  /\ last.before.content = <<>>
  /\ Plain(last.username) /\ Plain(last.password)
  /\ last.username # <<>> /\ last.password # <<>>

C2_DefaultProbeValidates ==
  C2_PlainUpsert =>
    \A q \in Guesses :
      validateOutcome(last.passwordfile, last.username, q, NoOptions)
        = Ok(<<q = last.password>>)

(***************************************************************************)
(* C2 amended: after that upsert, validate(file, u, q, {algorithm: PLAIN}) *)
(* returns true when q = p and false when q differs from p.                *)
(***************************************************************************)
C2_PlainProbeValidates ==
  C2_PlainUpsert =>
    \A q \in Guesses :
      validateOutcome(last.passwordfile, last.username, q,
                      [NoOptions EXCEPT !.algorithm = "PLAIN"])
        = Ok(<<q = last.password>>)

\* such an upsert of a password that is not empty, on the absent file
C2_Witness ==
  /\ C2_PlainUpsert
  /\ ~last.before.exists
  /\ last.password # <<>>
  /\ validateOutcome(last.passwordfile, last.username, last.password,
                     [NoOptions EXCEPT !.algorithm = "PLAIN"]) = Ok(<<TRUE>>)

(***************************************************************************)
(* C3 as stated, for the empty file: an upsert with a username that has    *)
(* no ':' and no line feed leaves at most one line per username.           *)
(***************************************************************************)
C3_OnePerUsername ==
  (UpsertWrote /\ last.before.content = <<>> /\ Plain(last.username)) =>
    NoDuplicates(NewLines)

(***************************************************************************)
(* C3 amended: on a file of username:hash records with distinct           *)
(* usernames (the empty file is one), an upsert with no ':' and no line    *)
(* feed in the username and no line feed in the password, and any remove,  *)
(* leave a file of username:hash records with distinct usernames; so       *)
(* every file a sequence of such calls passes through is one.              *)
(***************************************************************************)
C3_DistinctUsernamesKept ==
  ( /\ AllRecords(OldLines) /\ NoDuplicates(OldLines)
    /\ \/ /\ UpsertWrote
          /\ Plain(last.username)
          /\ \A k \in 1..Len(last.password) : last.password[k] # LF
       \/ last.op = "remove" /\ last.threw = None ) =>
    AllRecords(NewLines) /\ NoDuplicates(NewLines)

\* an upsert that replaced the record of its username in a file of two records
C3_Witness ==
  /\ UpsertWrote
  /\ Plain(last.username)
  /\ \A k \in 1..Len(last.password) : last.password[k] # LF
  /\ AllRecords(OldLines) /\ NoDuplicates(OldLines)
  /\ Len(OldLines) = 2 /\ Len(NewLines) = 2
  /\ \E i \in 1..2 : userOf(OldLines[i]) = last.username /\ NewLines[i] # OldLines[i]

(***************************************************************************)
(* C5: remove deletes every line whose username field is the username,     *)
(* writes the other lines as read and in their order, and returns true     *)
(* exactly when it deleted a line.                                         *)
(***************************************************************************)
C5_RemoveDeletesEveryMatch ==
  (last.op = "remove" /\ last.threw = None) =>
    /\ fs.content = join(SelectSeq(OldLines, LAMBDA l : userOf(l) # last.username))
    /\ last.found = (Matching(OldLines, last.username) # {})

\* a remove that deleted two lines and kept one that is not blank
C5_Witness ==
  /\ last.op = "remove" /\ last.threw = None /\ last.found
  /\ Cardinality(Matching(OldLines, last.username)) = 2
  /\ Len(OldLines) = 3
  /\ fs.content # <<>>

(***************************************************************************)
(* C6 as stated, for files of username:hash records: remove of a username  *)
(* that no line has returns false and leaves the content of the file       *)
(* unchanged.                                                              *)
(***************************************************************************)
C6_AbsentUser ==
  /\ last.op = "remove" /\ last.threw = None
  /\ Matching(OldLines, last.username) = {}

C6_ContentUnchanged ==
  (C6_AbsentUser /\ AllRecords(OldLines)) =>
    ~last.found /\ fs.content = last.before.content

(***************************************************************************)
(* C6 amended: remove of a username that no line has returns false and     *)
(* leaves the lines of the file as read; the file is rewritten as these    *)
(* lines joined by line feeds, so a file in that form is unchanged, and    *)
(* the line feed that ends the file and the carriage returns before line   *)
(* feeds are dropped.                                                      *)
(***************************************************************************)
C6_LinesUnchanged ==
  C6_AbsentUser => ~last.found /\ fs.content = join(OldLines)

\* such a remove on a file of two records that it left as it was
C6_Witness ==
  /\ C6_AbsentUser
  /\ ~last.found
  /\ AllRecords(OldLines) /\ Len(OldLines) = 2
  /\ fs = last.before

(***************************************************************************)
(* C7: after upsert(file, u, p, {algorithm: A}) with A one of MD5, SHA-1,  *)
(* BCRYPT, a password p that is not empty and no ':' or line feed in u,    *)
(* validate(file, u, p) with no explicit algorithm returns true and        *)
(* validate(file, u, q) returns false for every q other than p.            *)
(***************************************************************************)
C7_HashedUpsert ==
  /\ UpsertWrote
  /\ last.options.algorithm \in {"MD5", "SHA-1", "BCRYPT"}
  /\ last.password # <<>>
  /\ Plain(last.username)

C7_ValidateAfterUpsert ==
  C7_HashedUpsert =>
    \A q \in Guesses \cup {last.password} :
      validateOutcome(last.passwordfile, last.username, q, NoOptions)
        = Ok(<<q = last.password>>)

\* such an upsert with BCRYPT on a file that held two lines of the username
C7_Witness ==
  /\ C7_HashedUpsert
  /\ last.options.algorithm = "BCRYPT"
  /\ Cardinality(Matching(OldLines, last.username)) = 2
  /\ validateOutcome(last.passwordfile, last.username, last.password, NoOptions)
       = Ok(<<TRUE>>)

(***************************************************************************)
(* C10: when the password file does not exist, upsert with the path of the *)
(* file and without create, validate without create, and remove fail and   *)
(* leave the file absent; the error is NotFound (for upsert, when digest   *)
(* accepts the password and the options: digest runs before the file is    *)
(* opened, and its error comes first).                                     *)
(***************************************************************************)
C10_FileMissing ==
  /\ ~last.before.exists
  /\ last.passwordfile # ""
  /\ \/ last.op = "upsert" /\ ~last.options.create
     \/ last.op = "validate" /\ ~last.options.create
     \/ last.op = "remove"

C4_SecondUpsert ==
  /\ UpsertWrote
  /\ last'.op = "upsert" /\ last'.threw = None /\ last'.passwordfile # ""
  /\ last'.username = last.username
  /\ last'.options = last.options

C4_SecondUpsertStep ==
  C4_SecondUpsert =>
    LET new == readLines(fs'.content)
    IN /\ Cardinality(Matching(new, last'.username)) = 1
       /\ \A i \in Matching(new, last'.username) : new[i] = last'.ret
       /\ last'.ret \in Records(last'.username, last'.password, last'.options)
       /\ Len(new) = Len(readLines(fs.content))
       /\ (last.before.content = <<>> => fs'.content = last'.ret)

C4_UpsertTwice == [][C4_SecondUpsertStep]_vars

\* an upsert that replaced the one record of its username by another one, in
\* a file of two records
C4_Witness ==
  /\ UpsertWrote
  /\ Len(OldLines) = 2 /\ Len(NewLines) = 2
  /\ Cardinality(Matching(OldLines, last.username)) = 1
  /\ \A i \in Matching(OldLines, last.username) :
       OldLines[i] # last.ret /\ NewLines[i] = last.ret

(***************************************************************************)
(* C11: upsert with the empty path opens, creates and writes nothing, so   *)
(* the password file is as it was (an absent one stays absent), and it     *)
(* returns username:digest(password, options), or fails with the error of  *)
(* digest; with a path, the string it returns is a line of the text it     *)
(* wrote to the file.                                                      *)
(***************************************************************************)
C11_DryRun == last.op = "upsert" /\ last.passwordfile = ""

\* the text has s between two line feeds, or between one and an end of the text
C11_StoredIn(text, s) ==
  \E i \in 1..Len(text) :
    /\ i + Len(s) - 1 <= Len(text)
    /\ SubSeq(text, i, i + Len(s) - 1) = s
    /\ i = 1 \/ text[i - 1] = LF
    /\ i + Len(s) - 1 = Len(text) \/ text[i + Len(s)] = LF

C11_ReturnsWhatItStored ==
  /\ C11_DryRun =>
       /\ fs = last.before
       /\ last.threw = None =>
            last.ret \in Records(last.username, last.password, last.options)
       /\ last.threw # None =>
            \A r \in Salts : digest(last.password, last.options, r).threw = last.threw
  /\ UpsertWrote =>
       /\ last.ret \in Records(last.username, last.password, last.options)
       /\ C11_StoredIn(fs.content, last.ret)

\* a dry run with create set, on a file of two lines, that returned an MD5 record
C11_Witness ==
  /\ C11_DryRun
  /\ last.options.create /\ last.options.algorithm = "MD5"
  /\ last.before.exists /\ Len(OldLines) = 2
  /\ last.threw = None
  /\ last.ret = last.username \o <<COLON>> \o toHashString("MD5", last.password).value

(***************************************************************************)
(* C12: on a file with no line of the username (the empty or absent file,  *)
(* or a file with one record of another user), an upsert of the username   *)
(* and then a remove of it: the remove returns true and the file holds     *)
(* exactly the lines it held before the upsert, and the very content when  *)
(* it was there.  Usernames and passwords have no ':' and no line break.   *)
(***************************************************************************)
C12_UpsertThenRemove ==
  /\ UpsertWrote
  /\ Matching(OldLines, last.username) = {}
  /\ last'.op = "remove" /\ last'.passwordfile = last.passwordfile
  /\ last'.username = last.username

C12_UpsertThenRemoveStep ==
  C12_UpsertThenRemove =>
    /\ Len(OldLines) <= 1
    /\ last'.threw = None /\ last'.found
    /\ readLines(fs'.content) = OldLines
    /\ fs'.exists /\ fs'.content = last.before.content

C12_RoundTrip == [][C12_UpsertThenRemoveStep]_vars

\* a remove that returned true and deleted the last of two lines, a record of
\* its username that an upsert had appended to the record of the other user
C12_Witness ==
  /\ last.op = "remove" /\ last.threw = None /\ last.found
  /\ Len(OldLines) = 2 /\ Len(NewLines) = 1
  /\ userOf(OldLines[2]) = last.username /\ Len(OldLines[2]) > Len(last.username) + 1
  /\ userOf(OldLines[1]) # last.username /\ NewLines[1] = OldLines[1]

(***************************************************************************)
(* C13: a validate that opens the file returns true exactly when some line *)
(* of the username has a hash that compare accepts for the password under  *)
(* a candidate algorithm: the algorithm of the options when there is one,  *)
(* else MD5, SHA-1 and BCRYPT.  A line of the username that fails does not *)
(* end the scan.  With no line of the username it returns false.  It       *)
(* throws only what compare throws, for an algorithm that is not           *)
(* supported on a line of the username.                                    *)
(***************************************************************************)
C13_Validated ==
  /\ last.op = "validate"
  /\ last.before.exists /\ ~last.options.create

\* the candidate algorithms of the last call
C13_Candidates ==
  IF last.options.algorithm = Undef THEN {"MD5", "SHA-1", "BCRYPT"}
  ELSE {last.options.algorithm}

\* the lines of the username whose hash compare accepts under a candidate
C13_Accepted ==
  { i \in Matching(OldLines, last.username) :
      \E A \in C13_Candidates :
        compare(last.password, hashOf(OldLines[i]), A) = Ok(<<TRUE>>) }

C14_AppendsOrReplacesInPlace ==
  UpsertWrote =>
    /\ last.ret \in Records(last.username, last.password, last.options)
    /\ Matching(OldLines, last.username) = {} =>
         fs.content = join(OldLines \o <<last.ret>>)
    /\ Matching(OldLines, last.username) # {} =>
         fs.content =
           join([i \in 1..Len(OldLines) |->
                   IF i \in Matching(OldLines, last.username)
                     THEN last.ret ELSE OldLines[i]])

\* an upsert of a username that no line has, on a file of as many different
\* lines as a file of the model may have
C14_Witness ==
  /\ UpsertWrote
  /\ Len(OldLines) = MaxInitLines
  /\ Matching(OldLines, last.username) = {}
  /\ \A i, j \in 1..Len(OldLines) : i # j => OldLines[i] # OldLines[j]
  /\ NewLines = OldLines \o <<last.ret>>

(***************************************************************************)
(* C8 as stated: for every algorithm A of PLAIN, MD5, SHA-1, BCRYPT and    *)
(* every string s, digest(s, {algorithm: A}) returns a hash h and          *)
(* compare(s, h, A) returns true.                                          *)
(***************************************************************************)
C8_DigestCall ==
  /\ last.op = "digest"
  /\ last.options.algorithm \in Algorithms
  /\ last.options = onlyAlgorithm(last.options.algorithm)

C8_RoundTripEveryString ==
  C8_DigestCall =>
    /\ last.threw = None
    /\ compare(last.password, last.ret, last.options.algorithm) = Ok(<<TRUE>>)

(***************************************************************************)
(* C8 amended: for PLAIN, MD5 and SHA-1 and every string s, and for BCRYPT *)
(* and every string s of 1 to 72 bytes, digest(s, {algorithm: A}) returns  *)
(* a hash h, whatever salt it draws, and compare(s, h, A) returns true.    *)
(***************************************************************************)
C8_Accepted(text, algorithm) ==
  algorithm = "BCRYPT" => (Len(text) >= 1 /\ Len(text) <= BcryptMaxPassword)

C8_RoundTrip ==
  /\ (C8_DigestCall /\ C8_Accepted(last.password, last.options.algorithm)) =>
       /\ last.threw = None
       /\ compare(last.password, last.ret, last.options.algorithm) = Ok(<<TRUE>>)
  /\ ( /\ last.op = "compare"
       /\ last.options.algorithm \in Algorithms
       /\ \E r \in Salts :
            digest(last.password, last.options, r) = Ok(last.hash) ) =>
       last.threw = None /\ last.found

\* a BCRYPT digest with the second salt, which compares true
C8_Witness ==
  /\ C8_DigestCall
  /\ last.options.algorithm = "BCRYPT"
  /\ last.threw = None
  /\ last.ret[3] = "s2"
  /\ compare(last.password, last.ret, "BCRYPT") = Ok(<<TRUE>>)

(***************************************************************************)
(* C9 as stated: compare never throws, whatever the text, the hash and the *)
(* algorithm it is given.                                                  *)
(***************************************************************************)
C9_NeverThrows == last.op = "compare" => last.threw = None

(***************************************************************************)
(* C9 amended: for PLAIN, MD5, SHA-1 and BCRYPT compare never throws,      *)
(* whatever the text and the hash, and a malformed bcrypt hash gives       *)
(* false; for an algorithm crypto.subtle.digest does not support (CRYPT)   *)
(* it throws the error of digest.                                          *)
(***************************************************************************)
C9_SupportedNeverThrows ==
  last.op = "compare" =>
    /\ last.options.algorithm \in Algorithms => last.threw = None
    /\ (last.options.algorithm = "BCRYPT" /\ last.hash \in Malformed) => ~last.found
    /\ last.options.algorithm = "CRYPT" => last.threw = "NotSupportedError"

\* a BCRYPT compare of a text with a malformed hash, which returned false
C9_Witness ==
  /\ last.op = "compare"
  /\ last.options.algorithm = "BCRYPT"
  /\ last.password # <<>>
  /\ last.hash = <<"$", "5", "s1">>
  /\ last.threw = None /\ ~last.found

====
